---- MODULE Spec2Model ----
(***************************************************************************)
(* Housing price inference service: the start-up of the process (module    *)
(* import of src.inference_pipeline.inference, artifact download and       *)
(* header read of src.api.main), the /predict endpoint and the command     *)
(* line entry point, and the stages of predict().                          *)
(*                                                                         *)
(* A data frame is a record [cols, rows]: cols is the ordered sequence of  *)
(* column names, rows the ordered sequence of rows; a row is a record      *)
(* [idx, v] with idx the index label the row got when the frame was built  *)
(* and v the function from column name to value.                           *)
(***************************************************************************)
EXTENDS Integers, Sequences, FiniteSets, TLC

\* ------------------------------------------------------------------------
\* Bounds
\* ------------------------------------------------------------------------
MaxRows == 2
MaxRequests == 2

\* ------------------------------------------------------------------------
\* Values
\* ------------------------------------------------------------------------
None == "None"

\* pandas' missing value, as Series.map produces it for a key the mapping
\* does not have
NaN == -1

\* fill_value of the reindex call
FILL_VALUE == 0

RangeOf(s) == {s[i] : i \in DOMAIN s}

\* ------------------------------------------------------------------------
\* Inputs: the records a request can carry
\* ------------------------------------------------------------------------
RowPool ==
  <<
    [date |-> "2024-05-01", bedrooms |-> 3,  zipcode |-> "98101",
     city_full |-> "Seattle", price |-> 500, junk |-> 1],
    [date |-> "2024-05-01", bedrooms |-> 4,  zipcode |-> "00000",
     city_full |-> "Tacoma",  price |-> 700, junk |-> 1],
    [date |-> "2024-05-01", bedrooms |-> 99, zipcode |-> "98101",
     city_full |-> "Seattle", price |-> 900, junk |-> 1],
    [date |-> "not-a-date", bedrooms |-> 3,  zipcode |-> "98101",
     city_full |-> "Seattle", price |-> 500, junk |-> 1]
  >>

ColumnChoices ==
  { <<"bedrooms", "zipcode">>,
    <<"date", "bedrooms", "zipcode", "city_full", "price">>,
    <<"junk", "bedrooms", "price">>,
    <<"junk">>,
    <<"city_full", "zipcode">> }

RowChoices == UNION {[1..n -> DOMAIN RowPool] : n \in 0..MaxRows}

\* pd.DataFrame(data) / pd.read_csv(input): one row per record, index 0..n-1
\* (here 1..n), the columns in the order of the records' keys
DataFrame(cols, ids) ==
  [cols |-> cols,
   rows |-> [i \in DOMAIN ids |->
              [idx |-> i, v |-> [c \in RangeOf(cols) |-> RowPool[ids[i]][c]]]]]

Batches == {DataFrame(cols, ids) : cols \in ColumnChoices, ids \in RowChoices}

\* header row of the training-features file: the columns the model was
\* trained on, with the target column
Headers ==
  { <<"zipcode_freq", "bedrooms", "price">>,
    <<"bedrooms", "lot_size", "zipcode_freq", "year", "city_full_encoded", "price">> }

\* ------------------------------------------------------------------------
\* Data frame operations (pandas)
\* ------------------------------------------------------------------------
HasColumn(df, c) == c \in RangeOf(df.cols)

\* DataFrame.empty: an axis of length 0
IsEmpty(df) == Len(df.rows) = 0 \/ Len(df.cols) = 0

Keep(D, c) == c \notin D

\* df.drop(columns=D, errors="ignore")
DropColumns(df, D) ==
  [cols |-> SelectSeq(df.cols, LAMBDA c : Keep(D, c)),
   rows |-> [i \in DOMAIN df.rows |->
              [idx |-> df.rows[i].idx,
               v |-> [c \in RangeOf(df.cols) \ D |-> df.rows[i].v[c]]]]]

\* df[c] = values: an existing column keeps its place, a new one is appended;
\* values is the sequence of the new column's values, one per row
SetColumn(df, c, values) ==
  [cols |-> IF HasColumn(df, c) THEN df.cols ELSE Append(df.cols, c),
   rows |-> [i \in DOMAIN df.rows |->
              [idx |-> df.rows[i].idx,
               v |-> [d \in RangeOf(df.cols) \cup {c} |->
                        IF d = c THEN values[i] ELSE df.rows[i].v[d]]]]]

\* df.reindex(columns=S, fill_value=fill)
ReindexKeepingOrder(df, S, fill) ==
  [cols |-> SelectSeq(df.cols, LAMBDA c : c \in RangeOf(S)) \o
            SelectSeq(S, LAMBDA c : c \notin RangeOf(df.cols)),
   rows |-> [i \in DOMAIN df.rows |->
              [idx |-> df.rows[i].idx,
               v |-> [c \in RangeOf(S) |->
                        IF HasColumn(df, c) THEN df.rows[i].v[c] ELSE fill]]]]
ReindexUnfilled(df, S, fill) ==
  [cols |-> S,
   rows |-> [i \in DOMAIN df.rows |->
              [idx |-> df.rows[i].idx,
               v |-> [c \in RangeOf(S) |->
                        IF HasColumn(df, c) THEN df.rows[i].v[c] ELSE NaN]]]]
Reindex(df, S, fill) ==
  [cols |-> S,
   rows |-> [i \in DOMAIN df.rows |->
              [idx |-> df.rows[i].idx,
               v |-> [c \in RangeOf(S) |->
                        IF HasColumn(df, c) THEN df.rows[i].v[c] ELSE fill]]]]

\* ------------------------------------------------------------------------
\* Artifacts
\* ------------------------------------------------------------------------
\* the fitted frequency encoder: zipcode -> frequency (in hundredths)
FreqMap == [z \in {"98101", "98102"} |-> IF z = "98101" THEN 7 ELSE 3]

\* Series.map(freq_map): the mapped value, NaN for a key the mapping lacks
MapLookup(m, k) == IF k \in DOMAIN m THEN m[k] ELSE NaN

\* Series.fillna(0)
FillNaKept(x, fill) == x
FillNa(x, fill) == IF x = NaN THEN fill ELSE x

\* the fitted target encoder: city -> encoded value, its prior for a city it
\* has not seen
TargetMap == [c \in {"Seattle"} |-> 650]
TargetPrior == 600
TargetTransform(c) == IF c \in DOMAIN TargetMap THEN TargetMap[c] ELSE TargetPrior

\* ------------------------------------------------------------------------
\* Stages of the feature pipeline
\* ------------------------------------------------------------------------
\* clean_and_merge: nothing is merged into a batch that comes alone
clean_and_merge(df) == df

\* drop_duplicates: of rows equal in every column the first one stays, the
\* survivors keep their order
FirstOccurrence(rows, i) == \A j \in 1..(i - 1) : rows[j].v # rows[i].v

RECURSIVE FilterRows(_, _, _)
FilterRows(rows, i, keep) ==
  IF i > Len(rows) THEN <<>>
  ELSE IF i \in keep THEN <<rows[i]>> \o FilterRows(rows, i + 1, keep)
       ELSE FilterRows(rows, i + 1, keep)

drop_duplicates(df) ==
  [df EXCEPT !.rows =
     FilterRows(df.rows, 1, {i \in DOMAIN df.rows : FirstOccurrence(df.rows, i)})]

\* remove_outliers: a row whose numeric field is beyond the accepted range
\* is dropped whole
MaxPlausibleBedrooms == 20

IsOutlier(df, r) == HasColumn(df, "bedrooms") /\ r.v["bedrooms"] > MaxPlausibleBedrooms

remove_outliers(df) ==
  [df EXCEPT !.rows =
     FilterRows(df.rows, 1, {i \in DOMAIN df.rows : ~IsOutlier(df, df.rows[i])})]

\* add_date_features: calendar columns derived from the date, the date column
\* stays; a date that does not parse makes the stage fail
Calendar == [d \in {"2024-05-01"} |-> [year |-> 2024, month |-> 5]]

DatesParse(df) == \A i \in DOMAIN df.rows : df.rows[i].v["date"] \in DOMAIN Calendar

add_date_features(df) ==
  SetColumn(
    SetColumn(df, "year", [i \in DOMAIN df.rows |-> Calendar[df.rows[i].v["date"]].year]),
    "month", [i \in DOMAIN df.rows |-> Calendar[df.rows[i].v["date"]].month])

\* drop_unused_columns: the raw columns that encoded ones replace, absent
\* ones ignored
UnusedColumns == {"date", "zipcode", "city_full"}

drop_unused_columns(df) == DropColumns(df, UnusedColumns)

\* ------------------------------------------------------------------------
\* State
\* ------------------------------------------------------------------------
VARIABLES
  entry,       \* how the process was started: "api" (src.api.main) or "cli"
  boot,        \* position of the process in its start-up
  modelFile,   \* the model artifact: "local", "remote" (only in S3), "absent"
  trainFile,   \* the training-features file: "local", "remote", "absent"
  freqFile,    \* the frequency encoder artifact exists locally
  targetFile,  \* the target encoder artifact exists locally
  header,      \* header row of the training-features file
  infCols,     \* TRAIN_FEATURE_COLUMNS of the inference module
  apiCols,     \* TRAIN_FEATURE_COLUMNS of the API module
  apiKey,      \* settings.api_key
  reqKey,      \* the X-API-Key header of the request, None when missing
  pc,          \* position of the invocation in flight
  df,          \* the batch of the invocation in flight
  prev,        \* the batch as the stage that ran last received it
  y_true,      \* the extracted price column
  preds,       \* what model.predict returned
  called,      \* model.predict was called in this invocation
  out,         \* the frame predict() returns
  raised,      \* the exception predict() raised
  resp,        \* the response of the request
  trace,       \* the stages this invocation has run, in order
  skipped,     \* the optional stages this invocation has skipped
  loads,       \* loads of each artifact since the process started
  reqLoads,    \* loads of each artifact in this invocation
  nreq         \* invocations so far

vars == <<apiKey, reqKey, entry, boot, modelFile, trainFile, freqFile, targetFile, header,
          infCols, apiCols, pc, df, prev, y_true, preds, called, out, raised,
          resp, trace, skipped, loads, reqLoads, nreq>>

procVars == <<apiKey, entry, modelFile, trainFile, freqFile, targetFile, header,
              infCols, apiCols>>

NoColumns == [set |-> FALSE, cols |-> <<>>]
NoFrame == [cols |-> <<>>, rows |-> <<>>]
NoValues == [set |-> FALSE, values |-> <<>>]
NoError == [kind |-> None, cause |-> None]
NoResponse == [status |-> 0, detail |-> None, has_predictions |-> FALSE,
               predictions |-> <<>>, has_actuals |-> FALSE, actuals |-> <<>>]
NoLoads == [model |-> 0, freq |-> 0, target |-> 0]

\* values of API_KEY in the environment; the default is the empty string
ConfiguredKeys == {"", "k1"}

\* what a request carries as X-API-Key: nothing, or a string
PresentedKeys == {None, "", "k1", "k2"}

callVars == <<reqKey>>

FileStates == {"local", "remote", "absent"}

\* the script downloads nothing and reads no key: a file is there or not,
\* and the key is left at its default
FilesSeenBy(e) == IF e = "api" THEN FileStates ELSE {"local", "absent"}
KeysSeenBy(e) == IF e = "api" THEN ConfiguredKeys ELSE {""}

Init ==
  /\ entry \in {"api", "cli"}
  /\ boot = "import_inference"
  /\ modelFile \in FilesSeenBy(entry)
  /\ trainFile \in FilesSeenBy(entry)
  /\ freqFile \in BOOLEAN
  /\ targetFile \in BOOLEAN
  /\ header \in Headers
  /\ infCols = NoColumns
  /\ apiCols = NoColumns
  /\ apiKey \in KeysSeenBy(entry)
  /\ reqKey = None
  /\ pc = "idle"
  /\ df = NoFrame
  /\ prev = NoFrame
  /\ y_true = NoValues
  /\ preds = <<>>
  /\ called = FALSE
  /\ out = NoFrame
  /\ raised = NoError
  /\ resp = NoResponse
  /\ trace = <<>>
  /\ skipped = {}
  /\ loads = NoLoads
  /\ reqLoads = NoLoads
  /\ nreq = 0

\* ------------------------------------------------------------------------
\* Start-up
\* ------------------------------------------------------------------------
NotPrice(c) == c # "price"

\* the header read: the columns of the file but the price, None without file
ReadFeatureColumns(file, hdr) ==
  IF file = "local" THEN [set |-> TRUE, cols |-> SelectSeq(hdr, NotPrice)]
  ELSE NoColumns

\* load_from_s3: a local file is kept, a missing one is downloaded; the
\* download raises when the bucket does not have the object
load_from_s3(file) ==
  IF file = "local" THEN "local"
  ELSE IF file = "remote" THEN "local"
  ELSE "raise"

reqVars == <<reqKey, pc, df, prev, y_true, preds, called, out, raised, resp, trace, skipped,
             loads, reqLoads, nreq>>

\* the inference module is executed: by the import in the API module, or as
\* the script
ImportInference ==
  /\ boot = "import_inference"
  /\ infCols' = ReadFeatureColumns(trainFile, header)
  /\ boot' = IF entry = "api" THEN "model_path" ELSE "main"
  /\ UNCHANGED <<apiKey, entry, modelFile, trainFile, freqFile, targetFile, header, apiCols>>
  /\ UNCHANGED reqVars

\* MODEL_PATH = Path(load_from_s3(...))
DownloadModel ==
  /\ boot = "model_path"
  /\ IF load_from_s3(modelFile) = "raise"
       THEN boot' = "crashed" /\ UNCHANGED modelFile
       ELSE boot' = "train_fe_path" /\ modelFile' = load_from_s3(modelFile)
  /\ UNCHANGED <<apiKey, entry, trainFile, freqFile, targetFile, header, infCols, apiCols>>
  /\ UNCHANGED reqVars

\* TRAIN_FE_PATH = Path(load_from_s3(...))
DownloadTrainFeatures ==
  /\ boot = "train_fe_path"
  /\ IF load_from_s3(trainFile) = "raise"
       THEN boot' = "crashed" /\ UNCHANGED trainFile
       ELSE boot' = "train_columns" /\ trainFile' = load_from_s3(trainFile)
  /\ UNCHANGED <<apiKey, entry, modelFile, freqFile, targetFile, header, infCols, apiCols>>
  /\ UNCHANGED reqVars

\* the header read of the API module
ReadTrainColumns ==
  /\ boot = "train_columns"
  /\ apiCols' = ReadFeatureColumns(trainFile, header)
  /\ boot' = "serving"
  /\ UNCHANGED <<apiKey, entry, modelFile, trainFile, freqFile, targetFile, header, infCols>>
  /\ UNCHANGED reqVars

\* ------------------------------------------------------------------------
\* Requests
\* ------------------------------------------------------------------------
ErrorResponse(status, detail) ==
  [status |-> status, detail |-> detail, has_predictions |-> FALSE,
   predictions |-> <<>>, has_actuals |-> FALSE, actuals |-> <<>>]

Column(frame, c) == [i \in DOMAIN frame.rows |-> frame.rows[i].v[c]]

\* get_api_key: the key when it is given and equals the configured one, 401
\* otherwise
get_api_key_compared_only(key, configured) ==
  IF key # configured THEN "401" ELSE "ok"
get_api_key(key, configured) ==
  IF key = None \/ key = "" \/ key # configured THEN "401" ELSE "ok"

\* POST /predict up to the call of predict(): the key dependency, the
\* model-existence check, the frame built from the records, the empty check
PredictBatch(key, data) ==
  /\ entry = "api"
  /\ boot = "serving"
  /\ pc = "idle"
  /\ nreq < MaxRequests
  /\ nreq' = nreq + 1
  /\ reqKey' = key
  /\ prev' = NoFrame
  /\ y_true' = NoValues
  /\ preds' = <<>>
  /\ called' = FALSE
  /\ out' = NoFrame
  /\ raised' = NoError
  /\ trace' = <<>>
  /\ skipped' = {}
  /\ reqLoads' = NoLoads
  /\ IF get_api_key(key, apiKey) = "401"
       THEN /\ resp' = ErrorResponse(401, "Invalid API Key")
            /\ pc' = "responded"
            /\ df' = NoFrame
       ELSE IF modelFile # "local"
         THEN /\ resp' = ErrorResponse(500, "Model not found")
              /\ pc' = "responded"
              /\ df' = NoFrame
         ELSE IF IsEmpty(data)
           THEN /\ resp' = ErrorResponse(400, "No data provided")
                /\ pc' = "responded"
                /\ df' = data
           ELSE /\ resp' = NoResponse
                /\ pc' = "clean"
                /\ df' = data
  /\ UNCHANGED <<procVars, boot, loads>>

\* the model file goes away from the local disk while the service is up and
\* no request is in flight: the case the existence checks look for
ModelFileLost ==
  /\ entry = "api"
  /\ boot = "serving"
  /\ pc = "idle"
  /\ modelFile = "local"
  /\ modelFile' = "absent"
  /\ UNCHANGED <<apiKey, entry, trainFile, freqFile, targetFile, header,
                 infCols, apiCols, boot>>
  /\ UNCHANGED reqVars

\* GET /health: what the endpoint reports in the current state
health ==
  [status |-> IF modelFile = "local" THEN "healthy" ELSE "unhealthy",
   has_n_features |-> modelFile = "local" /\ apiCols.set /\ Len(apiCols.cols) > 0,
   n_features_expected |-> IF modelFile = "local" /\ apiCols.set
                             THEN Len(apiCols.cols) ELSE 0]

\* the script: the input file is read and handed to predict()
CliMain(data) ==
  /\ entry = "cli"
  /\ boot = "main"
  /\ pc = "idle"
  /\ nreq' = nreq + 1
  /\ pc' = "clean"
  /\ df' = data
  /\ UNCHANGED <<procVars, callVars, boot, prev, y_true, preds, called, out, raised,
                 resp, trace, skipped, loads, reqLoads>>

\* ------------------------------------------------------------------------
\* predict(), stage by stage
\* ------------------------------------------------------------------------
\* the order of the steps in the body of predict()
StageOrder ==
  <<"clean", "date", "freq", "target", "prune", "extract", "align", "model",
    "assemble", "returned">>

StageIndex(stage) == CHOOSE i \in DOMAIN StageOrder : StageOrder[i] = stage

NextStageTargetFirst(stage) ==
  IF stage = "date" THEN "target"
  ELSE IF stage = "target" THEN "freq"
  ELSE IF stage = "freq" THEN "prune"
  ELSE StageOrder[StageIndex(stage) + 1]
NextStage(stage) == StageOrder[StageIndex(stage) + 1]

\* Step 1: preprocess raw input
Clean ==
  /\ pc = "clean"
  /\ prev' = df
  /\ df' = remove_outliers(drop_duplicates(clean_and_merge(df)))
  /\ trace' = Append(trace, "clean")
  /\ pc' = NextStage("clean")
  /\ UNCHANGED <<procVars, callVars, boot, y_true, preds, called, out, raised, resp,
                 skipped, loads, reqLoads, nreq>>

\* Step 2: feature engineering
DateGate(frame) == HasColumn(frame, "date")

DateFeatures ==
  /\ pc = "date"
  /\ prev' = df
  /\ IF DateGate(df)
       THEN /\ trace' = Append(trace, "date")
            /\ UNCHANGED skipped
            /\ IF DatesParse(df)
                 THEN /\ df' = add_date_features(df)
                      /\ pc' = NextStage("date")
                      /\ UNCHANGED raised
                 ELSE /\ raised' = [kind |-> "ValueError", cause |-> "date"]
                      /\ pc' = "raised"
                      /\ UNCHANGED df
       ELSE /\ skipped' = skipped \cup {"date"}
            /\ pc' = NextStage("date")
            /\ UNCHANGED <<df, trace, raised>>
  /\ UNCHANGED <<procVars, callVars, boot, y_true, preds, called, out, resp, loads,
                 reqLoads, nreq>>

\* an artifact is loaded: one more load, no object is kept from before
LoadedOnce(n) == IF n = 0 THEN 1 ELSE n
Loaded(n) == n + 1

\* Step 3: frequency encoding (zipcode)
FreqGateColumnOnly(frame) == HasColumn(frame, "zipcode")
FreqGate(frame) == freqFile /\ HasColumn(frame, "zipcode")

FrequencyEncodeKeepingZipcode(frame) ==
  SetColumn(frame, "zipcode_freq",
            [i \in DOMAIN frame.rows |->
               FillNa(MapLookup(FreqMap, frame.rows[i].v["zipcode"]), 0)])
FrequencyEncode(frame) ==
  DropColumns(
    SetColumn(frame, "zipcode_freq",
              [i \in DOMAIN frame.rows |->
                 FillNa(MapLookup(FreqMap, frame.rows[i].v["zipcode"]), 0)]),
    {"zipcode"})

FreqEncode ==
  /\ pc = "freq"
  /\ prev' = df
  /\ IF FreqGate(df)
       THEN /\ df' = FrequencyEncode(df)
            /\ trace' = Append(trace, "freq")
            /\ loads' = [loads EXCEPT !.freq = Loaded(@)]
            /\ reqLoads' = [reqLoads EXCEPT !.freq = Loaded(@)]
            /\ UNCHANGED skipped
       ELSE /\ skipped' = skipped \cup {"freq"}
            /\ UNCHANGED <<df, trace, loads, reqLoads>>
  /\ pc' = NextStage("freq")
  /\ UNCHANGED <<procVars, callVars, boot, y_true, preds, called, out, raised, resp, nreq>>

\* Step 3: target encoding (city_full -> city_full_encoded)
TargetGate(frame) == targetFile /\ HasColumn(frame, "city_full")

TargetEncodeFrame(frame) ==
  DropColumns(
    SetColumn(frame, "city_full_encoded",
              [i \in DOMAIN frame.rows |-> TargetTransform(frame.rows[i].v["city_full"])]),
    {"city_full"})

TargetEncode ==
  /\ pc = "target"
  /\ prev' = df
  /\ IF TargetGate(df)
       THEN /\ df' = TargetEncodeFrame(df)
            /\ trace' = Append(trace, "target")
            /\ loads' = [loads EXCEPT !.target = Loaded(@)]
            /\ reqLoads' = [reqLoads EXCEPT !.target = Loaded(@)]
            /\ UNCHANGED skipped
       ELSE /\ skipped' = skipped \cup {"target"}
            /\ UNCHANGED <<df, trace, loads, reqLoads>>
  /\ pc' = NextStage("target")
  /\ UNCHANGED <<procVars, callVars, boot, y_true, preds, called, out, raised, resp, nreq>>

\* Drop leakage columns
Prune ==
  /\ pc = "prune"
  /\ prev' = df
  /\ df' = drop_unused_columns(df)
  /\ trace' = Append(trace, "prune")
  /\ pc' = NextStage("prune")
  /\ UNCHANGED <<procVars, callVars, boot, y_true, preds, called, out, raised, resp,
                 skipped, loads, reqLoads, nreq>>

\* Step 4: separate actuals if present
ExtractPrice ==
  /\ pc = "extract"
  /\ prev' = df
  /\ IF HasColumn(df, "price")
       THEN /\ y_true' = [set |-> TRUE, values |-> Column(df, "price")]
            /\ df' = DropColumns(df, {"price"})
       ELSE /\ y_true' = NoValues
            /\ UNCHANGED df
  /\ trace' = Append(trace, "extract")
  /\ pc' = NextStage("extract")
  /\ UNCHANGED <<procVars, callVars, boot, preds, called, out, raised, resp, skipped,
                 loads, reqLoads, nreq>>

\* Step 5: align columns with training schema
Align ==
  /\ pc = "align"
  /\ prev' = df
  /\ IF infCols.set
       THEN /\ df' = Reindex(df, infCols.cols, FILL_VALUE)
            /\ trace' = Append(trace, "align")
            /\ UNCHANGED skipped
       ELSE /\ skipped' = skipped \cup {"align"}
            /\ UNCHANGED <<df, trace>>
  /\ pc' = NextStage("align")
  /\ UNCHANGED <<procVars, callVars, boot, y_true, preds, called, out, raised, resp,
                 loads, reqLoads, nreq>>

\* the names bound in the inference module when predict() runs: its imports
\* and its top-level definitions
InferenceNames ==
  {"argparse", "Path", "pd", "load", "settings", "get_logger", "logger",
   "add_date_features", "drop_unused_columns", "clean_and_merge",
   "drop_duplicates", "remove_outliers", "predict"}

\* raise Name(...): the exception of that class when the name is bound, a
\* NameError when it is not
RaiseNamed(name) == IF name \in InferenceNames THEN name ELSE "NameError"

\* the estimate of the model for a row of the matrix, written as the index
\* label of the row it was computed from
ModelEstimate(r) == r.idx

ModelOutcomes == {"ok", "load_error", "predict_error"}

\* Step 6: load model & predict
ModelPredict ==
  /\ pc = "model"
  /\ prev' = df
  /\ trace' = Append(trace, "model")
  /\ IF modelFile # "local"
       THEN /\ raised' = [kind |-> RaiseNamed("ModelNotFoundError"),
                          cause |-> "FileNotFoundError"]
            /\ pc' = "raised"
            /\ UNCHANGED <<preds, called, loads, reqLoads>>
       ELSE \E outcome \in ModelOutcomes :
              \/ /\ outcome = "ok"
                 /\ loads' = [loads EXCEPT !.model = Loaded(@)]
                 /\ reqLoads' = [reqLoads EXCEPT !.model = Loaded(@)]
                 /\ called' = TRUE
                 /\ preds' = [i \in DOMAIN df.rows |-> ModelEstimate(df.rows[i])]
                 /\ pc' = NextStage("model")
                 /\ UNCHANGED raised
              \/ /\ outcome = "load_error"
                 /\ raised' = [kind |-> RaiseNamed("PredictionError"),
                               cause |-> "load"]
                 /\ pc' = "raised"
                 /\ UNCHANGED <<preds, called, loads, reqLoads>>
              \/ /\ outcome = "predict_error"
                 /\ loads' = [loads EXCEPT !.model = Loaded(@)]
                 /\ reqLoads' = [reqLoads EXCEPT !.model = Loaded(@)]
                 /\ called' = TRUE
                 /\ raised' = [kind |-> RaiseNamed("PredictionError"),
                               cause |-> "predict"]
                 /\ pc' = "raised"
                 /\ UNCHANGED preds
  /\ UNCHANGED <<procVars, callVars, boot, df, y_true, out, resp, skipped, nreq>>

\* Step 7: build output
BuildOutput(frame, p, y) ==
  IF y.set
    THEN SetColumn(SetColumn(frame, "predicted_price", p), "actual_price", y.values)
    ELSE SetColumn(frame, "predicted_price", p)

Assemble ==
  /\ pc = "assemble"
  /\ prev' = df
  /\ out' = BuildOutput(df, preds, y_true)
  /\ trace' = Append(trace, "assemble")
  /\ pc' = NextStage("assemble")
  /\ UNCHANGED <<procVars, callVars, boot, df, y_true, preds, called, raised, resp,
                 skipped, loads, reqLoads, nreq>>

\* POST /predict after predict(): the response built from the returned
\* frame, or the exception turned into a 500
SuccessResponseWithoutActuals(frame) ==
  [status |-> 200, detail |-> None, has_predictions |-> TRUE,
   predictions |-> Column(frame, "predicted_price"),
   has_actuals |-> FALSE, actuals |-> <<>>]
SuccessResponse(frame) ==
  [status |-> 200, detail |-> None, has_predictions |-> TRUE,
   predictions |-> Column(frame, "predicted_price"),
   has_actuals |-> HasColumn(frame, "actual_price"),
   actuals |-> IF HasColumn(frame, "actual_price")
                 THEN Column(frame, "actual_price") ELSE <<>>]

FailureAsEmptySuccess(e) ==
  [status |-> 200, detail |-> None, has_predictions |-> TRUE,
   predictions |-> <<>>, has_actuals |-> FALSE, actuals |-> <<>>]
FailureResponse(e) == ErrorResponse(500, "Prediction failed")

Respond ==
  /\ entry = "api"
  /\ pc \in {"returned", "raised"}
  /\ resp' = IF pc = "returned" THEN SuccessResponse(out) ELSE FailureResponse(raised)
  /\ pc' = "responded"
  /\ UNCHANGED <<procVars, callVars, boot, df, prev, y_true, preds, called, out, raised,
                 trace, skipped, loads, reqLoads, nreq>>

\* the handler has returned or raised: the response is out and the frames of
\* the request are gone, the process waits for the next request
RequestDone ==
  /\ entry = "api"
  /\ pc = "responded"
  /\ pc' = "idle"
  /\ reqKey' = None
  /\ df' = NoFrame
  /\ prev' = NoFrame
  /\ y_true' = NoValues
  /\ preds' = <<>>
  /\ called' = FALSE
  /\ out' = NoFrame
  /\ raised' = NoError
  /\ resp' = NoResponse
  /\ trace' = <<>>
  /\ skipped' = {}
  /\ reqLoads' = NoLoads
  /\ UNCHANGED <<procVars, boot, loads, nreq>>

\* the script after predict(): the frame is written, or the exception ends
\* the process
CliFinish ==
  /\ entry = "cli"
  /\ pc \in {"returned", "raised"}
  /\ boot' = "exited"
  /\ pc' = "exited"
  /\ UNCHANGED <<procVars, callVars, df, prev, y_true, preds, called, out, raised, resp,
                 trace, skipped, loads, reqLoads, nreq>>

Next ==
  \/ ImportInference
  \/ DownloadModel
  \/ DownloadTrainFeatures
  \/ ReadTrainColumns
  \/ \E key \in PresentedKeys, data \in Batches : PredictBatch(key, data)
  \/ ModelFileLost
  \/ \E data \in Batches : CliMain(data)
  \/ Clean
  \/ DateFeatures
  \/ FreqEncode
  \/ TargetEncode
  \/ Prune
  \/ ExtractPrice
  \/ Align
  \/ ModelPredict
  \/ Assemble
  \/ Respond
  \/ RequestDone
  \/ CliFinish

Spec == Init /\ [][Next]_vars

\* ------------------------------------------------------------------------
\* Properties
\* ------------------------------------------------------------------------
Ran(stage) == stage \in RangeOf(trace)

\* the alignment step has just run: prev is the batch it received, df the
\* matrix it produced
JustAligned == pc = "model" /\ Ran("align")

\* the frequency encoding has just run
JustFreqEncoded == pc = NextStage("freq") /\ Ran("freq") /\ trace[Len(trace)] = "freq"

\* C1: whatever columns the batch has, the matrix the alignment step of
\* predict() produces has exactly as many columns as the training schema,
\* in the order of the training schema.
C1_AlignedShape ==
  JustAligned =>
    /\ Len(df.cols) = Len(infCols.cols)
    /\ \A k \in DOMAIN infCols.cols : df.cols[k] = infCols.cols[k]
    /\ \A i \in DOMAIN df.rows : DOMAIN df.rows[i].v = RangeOf(infCols.cols)

\* a batch that has a column the schema lacks, lacks a column the schema
\* has, and whose common columns come in another order than the schema's
C1_Witness ==
  /\ JustAligned
  /\ Len(df.rows) > 0
  /\ RangeOf(prev.cols) \ RangeOf(infCols.cols) # {}
  /\ RangeOf(infCols.cols) \ RangeOf(prev.cols) # {}
  /\ RangeOf(prev.cols) \cap RangeOf(infCols.cols) # {}
  /\ prev.cols # df.cols

\* C2: in every invocation of predict(), whether the training-features file
\* was cached, downloaded during start-up or absent, the matrix handed to
\* model.predict has exactly the columns of the training schema, in order.
C2_MatrixIsTrainingSchema ==
  called => df.cols = SelectSeq(header, NotPrice)

\* C3: in the aligned matrix every row has 0 in a schema column the batch
\* lacks and the batch's value in a column of both, a column of the batch
\* that the schema lacks is gone, and nothing is raised.
C3_AlignedValues ==
  JustAligned =>
    /\ Len(df.rows) = Len(prev.rows)
    /\ \A i \in DOMAIN df.rows :
         \A c \in RangeOf(infCols.cols) :
           IF HasColumn(prev, c)
             THEN df.rows[i].v[c] = prev.rows[i].v[c]
             ELSE df.rows[i].v[c] = 0
    /\ \A c \in RangeOf(prev.cols) \ RangeOf(infCols.cols) :
         /\ ~HasColumn(df, c)
         /\ \A i \in DOMAIN df.rows : c \notin DOMAIN df.rows[i].v
    /\ raised = NoError

\* the three cases in one alignment: lot_size filled, bedrooms kept, junk
\* dropped
C3_Witness ==
  /\ JustAligned
  /\ Len(df.rows) >= 2
  /\ HasColumn(df, "lot_size") /\ ~HasColumn(prev, "lot_size")
  /\ HasColumn(df, "bedrooms") /\ HasColumn(prev, "bedrooms")
  /\ HasColumn(prev, "junk")
  /\ df.rows[1].v["bedrooms"] # df.rows[2].v["bedrooms"]

\* C4: when the frequency encoder exists and the batch has a zipcode
\* column, after frequency encoding a row whose zipcode the encoder does not
\* know has zipcode_freq 0, a row whose zipcode it knows has the mapped
\* frequency, nothing is raised and the zipcode column is gone.
C4_FrequencyEncoding ==
  JustFreqEncoded =>
    /\ freqFile /\ HasColumn(prev, "zipcode")
    /\ Len(df.rows) = Len(prev.rows)
    /\ \A i \in DOMAIN df.rows :
         IF prev.rows[i].v["zipcode"] \in DOMAIN FreqMap
           THEN df.rows[i].v["zipcode_freq"] = FreqMap[prev.rows[i].v["zipcode"]]
           ELSE df.rows[i].v["zipcode_freq"] = 0
    /\ ~HasColumn(df, "zipcode")
    /\ \A i \in DOMAIN df.rows : "zipcode" \notin DOMAIN df.rows[i].v
    /\ raised = NoError

\* a batch with a zipcode the encoder knows and one it does not
C4_Witness ==
  /\ JustFreqEncoded
  /\ \E i \in DOMAIN prev.rows : prev.rows[i].v["zipcode"] \notin DOMAIN FreqMap
  /\ \E i \in DOMAIN prev.rows : prev.rows[i].v["zipcode"] \in DOMAIN FreqMap

\* C5: predict() fails with the "model not found" kind when the model
\* artifact cannot be located, with the "prediction failed" kind for any
\* other failure of the model step, and the caller can tell the two apart.
C5_DistinctErrorKinds ==
  /\ pc = "raised" /\ raised.cause = "FileNotFoundError"
       => raised.kind = "ModelNotFoundError"
  /\ pc = "raised" /\ raised.cause \in {"load", "predict"}
       => raised.kind = "PredictionError"

\* C6: for a batch of zero rows, and for a batch that deduplication or
\* outlier removal reduces to zero rows, model.predict is never called and
\* the caller gets the "no data" result, not a failure or an empty success.
C6_NoRowsNoPrediction ==
  /\ called => Len(df.rows) > 0
  /\ (entry = "api" /\ pc = "responded" /\ Len(df.rows) = 0)
       => (resp.status = 400 /\ resp.detail = "No data provided")

\* C7: a /predict request ends either in a success response with one
\* prediction for every row that survived cleaning, or in an error response
\* without predictions; a failure of a stage never gives a success response.
C7_AllOrNothing ==
  (entry = "api" /\ pc = "responded") =>
    \/ /\ resp.status = 200
       /\ raised = NoError
       /\ Ran("assemble")
       /\ resp.has_predictions
       /\ Len(resp.predictions) = Len(df.rows)
    \/ /\ resp.status \in {400, 401, 500}
       /\ ~Ran("assemble")
       /\ ~resp.has_predictions
       /\ resp.predictions = <<>>
       /\ ~resp.has_actuals

\* a request that failed in a stage after rows had been cleaned
C7_Witness ==
  /\ entry = "api"
  /\ pc = "responded"
  /\ raised # NoError
  /\ Len(df.rows) > 0
  /\ resp.status = 500

\* C8: in every invocation of predict() the stages run at most once each
\* and in the order cleaning, date features, frequency encoding, target
\* encoding, column pruning, price extraction, schema alignment, model
\* prediction, output assembly; frequency encoding precedes target encoding.
PipelineOrder ==
  <<"clean", "date", "freq", "target", "prune", "extract", "align", "model",
    "assemble">>

PipelinePosition(stage) == CHOOSE k \in DOMAIN PipelineOrder : PipelineOrder[k] = stage

C8_StageOrder ==
  /\ \A i \in DOMAIN trace : trace[i] \in RangeOf(PipelineOrder)
  /\ \A i, j \in DOMAIN trace :
       i < j => PipelinePosition(trace[i]) < PipelinePosition(trace[j])

\* an invocation in which every stage ran
C8_Witness == pc = "returned" /\ trace = PipelineOrder

\* C9: an optional stage whose gate is false (no date column; no zipcode
\* column or no frequency encoder; no city_full column or no target encoder)
\* is skipped without raising and leaves the batch unchanged, the remaining
\* stages run and the pipeline returns its predictions.
MandatoryStages == {"clean", "prune", "extract", "model", "assemble"}

C9_SkippedStagesLeaveBatch ==
  /\ (pc = "freq" /\ ~HasColumn(prev, "date"))
       => (df = prev /\ raised = NoError /\ ~Ran("date"))
  /\ (pc = "target" /\ ~(freqFile /\ HasColumn(prev, "zipcode")))
       => (df = prev /\ raised = NoError /\ ~Ran("freq"))
  /\ (pc = "prune" /\ ~(targetFile /\ HasColumn(prev, "city_full")))
       => (df = prev /\ raised = NoError /\ ~Ran("target"))
  /\ pc = "raised" => trace[Len(trace)] \in {"date", "model"}
  /\ pc = "returned" =>
       /\ MandatoryStages \subseteq RangeOf(trace)
       /\ Len(preds) = Len(df.rows)
       /\ HasColumn(out, "predicted_price")

\* an invocation that skipped the three stages, two of them for the missing
\* artifact, and returned predictions
C9_Witness ==
  /\ pc = "returned"
  /\ {"date", "freq", "target"} \subseteq skipped
  /\ ~freqFile /\ ~targetFile
  /\ Len(preds) > 0

Succeeded == entry = "api" /\ pc = "responded" /\ resp.status = 200

\* the index labels of the rows of a frame, in the order of the rows
Survivors(frame) == [i \in DOMAIN frame.rows |-> frame.rows[i].idx]

\* the price column has just been looked for: prev is the cleaned, encoded
\* and pruned batch, df the batch without the price
JustExtracted == pc = NextStage("extract") /\ trace # <<>> /\ trace[Len(trace)] = "extract"

\* C11: a successful response has one prediction per row that survived
\* cleaning, the i-th prediction is that of the i-th surviving row in input
\* order, and it has actuals exactly when a price column reached the
\* extraction step; then actuals is as long as predictions and actuals[i]
\* is the price of the row predictions[i] was computed from.
C11_PredictionsAlignedWithRows ==
  /\ pc = NextStage("clean") =>
       /\ Survivors(prev) = [i \in DOMAIN prev.rows |-> i]
       /\ \A i \in DOMAIN df.rows : df.rows[i] = prev.rows[df.rows[i].idx]
       /\ \A i, j \in DOMAIN df.rows : i < j => df.rows[i].idx < df.rows[j].idx
  /\ (trace # <<>> /\ trace[Len(trace)] # "clean") => Survivors(df) = Survivors(prev)
  /\ JustExtracted =>
       /\ y_true.set <=> HasColumn(prev, "price")
       /\ y_true.set =>
            /\ Len(y_true.values) = Len(df.rows)
            /\ \A i \in DOMAIN df.rows :
                 y_true.values[i] = prev.rows[i].v["price"]
  /\ Succeeded =>
       /\ Len(resp.predictions) = Len(df.rows)
       /\ \A i \in DOMAIN resp.predictions :
            resp.predictions[i] = ModelEstimate(df.rows[i])
       /\ \A i, j \in DOMAIN df.rows : i < j => df.rows[i].idx < df.rows[j].idx
       /\ resp.has_actuals <=> y_true.set
       /\ resp.has_actuals =>
            /\ Len(resp.actuals) = Len(resp.predictions)
            /\ resp.actuals = y_true.values
       /\ ~resp.has_actuals => resp.actuals = <<>>

\* a success with actuals for a batch whose first row cleaning removed: the
\* first prediction and the first actual are those of the second input row
C11_Witness ==
  /\ Succeeded
  /\ resp.has_actuals
  /\ Len(resp.predictions) > 0
  /\ df.rows[1].idx = 2
  /\ resp.predictions[1] = 2
  /\ resp.actuals[1] = 700

\* C12: the schema /health reports on (TRAIN_FEATURE_COLUMNS of the API
\* module) and the schema predict() aligns to (TRAIN_FEATURE_COLUMNS of the
\* inference module) are the same once the process serves: both unset, or
\* both the same column list.
C12_OneSchema ==
  (entry = "api" /\ boot = "serving") =>
    /\ infCols = apiCols
    /\ health.has_n_features =>
         (infCols.set /\ Len(infCols.cols) = health.n_features_expected)

\* C13: a /predict request whose X-API-Key is missing, empty or not the
\* configured key is answered 401 before the model-existence check, before
\* the frame is built and before predict() is called; with the empty string
\* configured every request is answered 401.
KeyRefused == reqKey = None \/ reqKey = "" \/ reqKey # apiKey

C13_RejectedBeforeAnything ==
  /\ (entry = "api" /\ pc # "idle" /\ KeyRefused) =>
       /\ pc = "responded"
       /\ resp = ErrorResponse(401, "Invalid API Key")
       /\ df = NoFrame /\ prev = NoFrame
       /\ trace = <<>> /\ ~called /\ reqLoads = NoLoads
  /\ (entry = "api" /\ pc # "idle" /\ apiKey = "") => resp.status = 401
  /\ (entry = "api" /\ pc \notin {"idle", "responded"}) =>
       (reqKey = apiKey /\ reqKey # "")

\* the empty key presented to a service configured with the empty key, the
\* model file being gone: 401, not the 500 of the existence check
C13_Witness ==
  /\ entry = "api"
  /\ pc = "responded"
  /\ apiKey = "" /\ reqKey = ""
  /\ modelFile # "local"
  /\ resp.status = 401

====
